---------------------------- MODULE Spec2Model ----------------------------
(***************************************************************************)
(* Model of src/app.py, the workout dashboard script of                    *)
(* datojulien/workout-dashboard.  The script is one top-to-bottom run over *)
(* a CSV of training sets: load, exclude cardio rows, derive metrics,      *)
(* estimate 1RM, detect personal records, classify exercises, build the    *)
(* weekly summary, select a view from the sidebar, compute the advanced    *)
(* metrics (ACWR, 1RM trend) and build the CSV export.  Each of these      *)
(* script sections is one action; Streamlit reruns the script after every  *)
(* interaction (Rerun).                                                    *)
(*                                                                         *)
(* Conventions.  A text is a tuple of one-character strings.  A numeric    *)
(* CSV cell is a record [k, v]: k = "num" (the number v), k = "nan" (an    *)
(* empty cell, NaN after read_csv) or k = "str" (a text that is no number, *)
(* which makes the column an object column).  Weights are whole kilograms. *)
(* The 1RM estimate aw * (1 + reps/30) is kept as the whole number         *)
(* 30 * estimate = aw * (30 + reps).  A ratio is a record [k, num, den].   *)
(* A day or timestamp is <<year, month, day>>; NaT is <<>>.                *)
(*                                                                         *)
(* Scope.  The sections that only render (summary metrics, the weekly      *)
(* expander, the muscle-group charts, the per-exercise volume charts, the  *)
(* Set # column) write nothing another section reads and are left out.     *)
(* The files read are those that leave at least one row after the cardio   *)
(* exclusion, with weights and reps that are not negative: on an empty     *)
(* frame the outcome of df.apply(axis=1) depends on the pandas version.    *)
(* A text in a numeric column ends the run with TypeError in the derived   *)
(* metrics (in the product with a float column, the comparison with 0 or   *)
(* Reps / 30).                                                             *)
(***************************************************************************)
EXTENDS Integers, Sequences, FiniteSets, TLC

(***************************** bounds **************************************)
\* rows of a file of several sets
MaxRows == 2
\* weeks of a week-by-week log
MaxWeeks == 5
\* largest reps and largest weight (in units of 20 kg) of a one-row file
MaxReps == 3
MaxWeight == 2

(***************************** texts ***************************************)
UpperChars ==
    <<"A","B","C","D","E","F","G","H","I","J","K","L","M","N","O","P","Q","R","S","T","U","V","W","X","Y","Z">>
LowerChars ==
    <<"a","b","c","d","e","f","g","h","i","j","k","l","m","n","o","p","q","r","s","t","u","v","w","x","y","z">>

\* str.lower(), one character
LowerChar(c) ==
    IF \E i \in 1..26 : UpperChars[i] = c
    THEN LowerChars[CHOOSE i \in 1..26 : UpperChars[i] = c]
    ELSE c

\* str.lower()
ToLower(s) == [i \in 1..Len(s) |-> LowerChar(s[i])]

\* Python's `k in n`: k occurs in n as a contiguous substring
Contains(n, k) ==
    \E i \in 0..(Len(n) - Len(k)) : \A j \in 1..Len(k) : n[i + j] = k[j]

\* the missing value of a text column (an empty CSV field), and str(NaN)
NoText == <<>>
NanText == <<"n","a","n">>

\* Python's str(name) of an Exercise cell
Str(name) == IF name = NoText THEN NanText ELSE name

(***************************** numeric cells *******************************)
Num(n) == [k |-> "num", v |-> n]
NaN == [k |-> "nan", v |-> 0]
NonNumeric == [k |-> "str", v |-> 0]

\* Series.fillna(d) on one cell
fillna(c, d) == IF c.k = "nan" THEN Num(d) ELSE c

\* the largest element of a non-empty set of integers
MaxOf(S) == CHOOSE x \in S : \A y \in S : y <= x

\* sum of f[i] over i in 1..Len(f)
RECURSIVE SumSeq(_)
SumSeq(f) == IF Len(f) = 0 THEN 0 ELSE f[1] + SumSeq(Tail(f))

(***************************** calendar ************************************)
NaT == <<>>

IsLeap(y) == (y % 4 = 0 /\ y % 100 # 0) \/ y % 400 = 0

DaysInMonth(y, m) ==
    IF m = 2 THEN (IF IsLeap(y) THEN 29 ELSE 28)
    ELSE IF m \in {4, 6, 9, 11} THEN 30 ELSE 31

RECURSIVE DaysBeforeMonth(_, _)
DaysBeforeMonth(y, m) ==
    IF m = 1 THEN 0 ELSE DaysBeforeMonth(y, m - 1) + DaysInMonth(y, m - 1)

DayOfYear(t) == DaysBeforeMonth(t[1], t[2]) + t[3]

\* proleptic Gregorian ordinal, 0001-01-01 = 1 (a Monday)
Ordinal(t) ==
    LET p == t[1] - 1
    IN  p * 365 + (p \div 4) - (p \div 100) + (p \div 400) + DayOfYear(t)

\* ISO weekday, Monday = 1 .. Sunday = 7
IsoWeekday(t) == ((Ordinal(t) + 6) % 7) + 1

\* number of ISO weeks of year y: 53 when 1 January is a Thursday, or a
\* Wednesday of a leap year
WeeksInYear(y) ==
    LET jan1 == IsoWeekday(<<y, 1, 1>>)
    IN  IF jan1 = 4 \/ (jan1 = 3 /\ IsLeap(y)) THEN 53 ELSE 52

\* ISO-8601 year and week of a day
IsoYearWeek(t) ==
    LET w == (DayOfYear(t) - IsoWeekday(t) + 10) \div 7
    IN  IF w < 1 THEN <<t[1] - 1, WeeksInYear(t[1] - 1)>>
        ELSE IF w > WeeksInYear(t[1]) THEN <<t[1] + 1, 1>>
        ELSE <<t[1], w>>

\* Series.dt.isocalendar().week: the week number alone; <NA> (0) for NaT
NoWeek == 0
IsoWeek(t) == IF t = NaT THEN NoWeek ELSE IsoYearWeek(t)[2]

\* a raw Date cell: an ISO "yyyy-mm-dd" text, or another text
IsoText(y, m, d) == [k |-> "iso", y |-> y, m |-> m, d |-> d]
OtherText == [k |-> "str", y |-> 0, m |-> 0, d |-> 0]

\* pd.to_datetime(cell, errors="coerce"): NaT for what is no calendar date
to_datetime(c) ==
    IF c.k = "iso" /\ c.m \in 1..12 /\ c.d >= 1 /\ c.d <= DaysInMonth(c.y, c.m)
    THEN <<c.y, c.m, c.d>>
    ELSE NaT

\* Timestamp.date(): the calendar day of a timestamp
DateOf(ts) == ts

\* day order
DayBefore(a, b) == Ordinal(a) < Ordinal(b)


(***************************** exercise names ******************************)
BackSquat == <<"B","a","c","k"," ","S","q","u","a","t">>
LegCurl == <<"L","e","g"," ","C","u","r","l">>
InclineLegPress == <<"I","n","c","l","i","n","e"," ","L","e","g"," ","P","r","e","s","s">>
SquatPushRow == <<"S","q","u","a","t"," ","P","u","s","h"," ","R","o","w">>
BenchPress == <<"B","e","n","c","h"," ","P","r","e","s","s">>
InclineRow == <<"I","n","c","l","i","n","e"," ","R","o","w">>
PullUp == <<"P","u","l","l","-","U","p">>
BarbellRowCaps == <<"B","A","R","B","E","L","L"," ","R","O","W">>
Plank == <<"P","l","a","n","k">>
StairStepperLevel5 == <<"S","t","a","i","r"," ","S","t","e","p","p","e","r"," ","L","e","v","e","l"," ","5">>
StairStepperLower == <<"s","t","a","i","r"," ","s","t","e","p","p","e","r">>
IndoorCyclingCaps == <<"I","n","d","o","o","r"," ","C","Y","C","L","I","N","G">>

(***************************** cardio exclusion ****************************)
\* the alternatives of the pattern "Stair Stepper|Cycling"
cardio_patterns ==
    <<<<"S","t","a","i","r"," ","S","t","e","p","p","e","r">>,
      <<"C","y","c","l","i","n","g">>>>

\* the match with case=True
IsCardio_case_sensitive(name) ==
    /\ name # NoText
    /\ \E i \in 1..Len(cardio_patterns) : Contains(name, cardio_patterns[i])

\* Series.str.contains("Stair Stepper|Cycling", case=False, na=False), one cell
IsCardio(name) ==
    /\ name # NoText
    /\ \E i \in 1..Len(cardio_patterns) :
          Contains(ToLower(name), ToLower(cardio_patterns[i]))

(***************************** classifier **********************************)
lower_kw ==
    <<<<"s","q","u","a","t">>,
      <<"d","e","a","d","l","i","f","t">>,
      <<"l","u","n","g","e">>,
      <<"l","e","g">>,
      <<"h","a","m","s","t","r","i","n","g">>,
      <<"c","a","l","f">>,
      <<"h","i","p"," ","t","h","r","u","s","t">>,
      <<"t","h","r","u","s","t">>,
      <<"g","l","u","t","e">>,
      <<"r","d","l">>,
      <<"g","o","o","d"," ","m","o","r","n","i","n","g">>>>
push_kw ==
    <<<<"b","e","n","c","h">>,
      <<"o","v","e","r","h","e","a","d"," ","p","r","e","s","s">>,
      <<"s","h","o","u","l","d","e","r"," ","p","r","e","s","s">>,
      <<"i","n","c","l","i","n","e">>,
      <<"d","i","p">>,
      <<"d","i","p","s">>,
      <<"p","u","s","h">>,
      <<"t","r","i","c","e","p">>>>
pull_kw ==
    <<<<"r","o","w">>,
      <<"p","u","l","l","d","o","w","n">>,
      <<"p","u","l","l","-","u","p">>,
      <<"c","u","r","l">>,
      <<"f","a","c","e"," ","p","u","l","l">>,
      <<"s","h","r","u","g">>,
      <<"c","h","i","n">>>>

\* any(k in n for k in kws)
AnyIn(n, kws) == \E i \in 1..Len(kws) : Contains(n, kws[i])

\* the push keywords tested before the lower-body ones
classify_push_first(name) ==
    LET n == ToLower(Str(name))
    IN  IF AnyIn(n, push_kw) THEN "Push"
        ELSE IF AnyIn(n, lower_kw) THEN "Lower"
        ELSE IF AnyIn(n, pull_kw) THEN "Pull"
        ELSE "Other"

classify_exercise(name) ==
    LET n == ToLower(Str(name))
    IN  IF AnyIn(n, lower_kw) THEN "Lower"
        ELSE IF AnyIn(n, push_kw) THEN "Push"
        ELSE IF AnyIn(n, pull_kw) THEN "Pull"
        ELSE "Other"

(***************************** frame helpers *******************************)
\* the rows of a frame, as a set
Rows(f) == {f[i] : i \in 1..Len(f)}

\* an ascending sequence of the integers of S
RECURSIVE SortedSeq(_)
SortedSeq(S) ==
    IF S = {} THEN <<>>
    ELSE LET m == CHOOSE x \in S : \A y \in S : x <= y
         IN  <<m>> \o SortedSeq(S \ {m})

Reverse(s) == [i \in 1..Len(s) |-> s[Len(s) + 1 - i]]

\* the value of a Reps cell in a sum (NaN is skipped)
RepsOrZero(r) == IF r.Reps.k = "num" THEN r.Reps.v ELSE 0

(***************************** state ***************************************)
VARIABLES
    pc,             \* the script section about to run
    raw,            \* the CSV rows read_csv returns
    df,             \* the data frame
    prs_weight,     \* exercise -> heaviest actual weight (weighted sets)
    prs_reps,       \* exercise -> most reps (bodyweight sets)
    weekly_summary, \* one row per week number, most recent first
    view_mode,      \* sidebar radio
    hide_light,     \* sidebar checkbox
    selected,       \* selected_day or selected_ex
    df_view,        \* the rows of the selected view
    weekly,         \* weekly volume, PR count and ACWR, by week ascending
    irm,            \* the 1RM trend series, by day ascending
    df_export       \* the rows of the CSV download of the view

vars == <<pc, raw, df, prs_weight, prs_reps, weekly_summary, view_mode,
          hide_light, selected, df_view, weekly, irm, df_export>>

\* the value of a selectbox with no options
None == <<"None">>

(***************************** input corpora *******************************)
\* Monday 6 January 2025 (ISO week 2 of 2025) and days around it
Mon2025W02 == IsoText(2025, 1, 6)
Wed2025W02 == IsoText(2025, 1, 8)
Mon2025W03 == IsoText(2025, 1, 13)
Wed2026W02 == IsoText(2026, 1, 7)
Feb30 == IsoText(2025, 2, 30)

CsvRow(d, e, r, w, m) ==
    [Date |-> d, Exercise |-> e, Reps |-> r, Weight |-> w, multiplier |-> m]

\* weights are multiples of 20 kg
Kg(w) == 20 * w

AllNames ==
    {BackSquat, LegCurl, InclineLegPress, SquatPushRow, BenchPress, InclineRow,
     PullUp, BarbellRowCaps, Plank, StairStepperLevel5, StairStepperLower,
     IndoorCyclingCaps, NoText}

\* one-row files: every combination of cell kinds
SingleRows ==
    { CsvRow(d, e, r, w, m) :
        d \in {Mon2025W02, OtherText, Feb30},
        e \in AllNames,
        r \in {NaN, NonNumeric} \cup {Num(n) : n \in 0..MaxReps},
        w \in {NaN, NonNumeric} \cup {Num(Kg(n)) : n \in 0..MaxWeight},
        m \in {NaN, NonNumeric, Num(1), Num(2)} }

\* rows of one day: several sets of a few exercises
SetRows ==
    { CsvRow(Mon2025W02, e, r, w, Num(1)) :
        e \in {BenchPress, PullUp, NoText},
        r \in {NaN, Num(0), Num(1)},
        w \in {Num(0), Num(Kg(1))} }

\* rows that differ in their date cell
DatedCells == {Mon2025W02, Wed2025W02, Mon2025W03, Wed2026W02, OtherText}
DatedRows ==
    { CsvRow(d, BenchPress, Num(1), Num(Kg(w)), Num(1)) :
        d \in DatedCells, w \in {1, 2} }
    \cup { CsvRow(d, StairStepperLevel5, Num(1), Num(Kg(1)), Num(1)) :
        d \in DatedCells }

\* the Monday of the i-th week of a log that starts on 6 January 2025
LogMonday(i) ==
    LET n == 6 + 7 * (i - 1)
    IN  IF n <= 31 THEN IsoText(2025, 1, n)
        ELSE IF n <= 59 THEN IsoText(2025, 2, n - 31)
        ELSE IsoText(2025, 3, n - 59)

\* a week-by-week log: per week no session (-1) or one set of w x 20 kg
WeekLogs ==
    UNION { [1..n -> -1..2] : n \in 1..MaxWeeks }

\* five weeks of one set each, of volume 1100, 1000, 900, 800 and 1000
ExampleLog ==
    [i \in 1..5 |->
        CsvRow(LogMonday(i), BenchPress, Num(1),
               Num(<<1100, 1000, 900, 800, 1000>>[i]), Num(1))]

RECURSIVE LogRows(_, _)
LogRows(log, i) ==
    IF i > Len(log) THEN <<>>
    ELSE (IF log[i] < 0 THEN <<>>
          ELSE <<CsvRow(LogMonday(i), BenchPress, Num(1), Num(Kg(log[i])), Num(1))>>)
         \o LogRows(log, i + 1)

\* the files the script is run on: at least one row survives the exclusion
Corpora ==
    { c \in  { <<r>> : r \in SingleRows }
        \cup UNION { [1..n -> SetRows] : n \in 2..MaxRows }
        \cup UNION { [1..n -> DatedRows] : n \in 2..MaxRows }
        \cup { LogRows(l, 1) : l \in WeekLogs }
        \cup { ExampleLog } :
      \E i \in 1..Len(c) : ~IsCardio(c[i].Exercise) }

(***************************** load ****************************************)
\* read_csv, then Date parsed and Day derived; the index is the CSV row number
LoadFrame(csv) ==
    [i \in 1..Len(csv) |->
        [index |-> i,
         Date |-> to_datetime(csv[i].Date),
         Day |-> DateOf(to_datetime(csv[i].Date)),
         Exercise |-> csv[i].Exercise,
         Reps |-> csv[i].Reps,
         Weight |-> csv[i].Weight,
         multiplier |-> csv[i].multiplier]]

\* df[~df["Exercise"].str.contains(...)]
ExcludeCardioRows(f) == SelectSeq(f, LAMBDA r : ~IsCardio(r.Exercise))

(***************************** derived metrics *****************************)
\* whether the arithmetic of the derived metrics is arithmetic on numbers: a
\* text in a numeric column makes it an object column, and the products, the
\* comparison with 0 or the division by 30 raise TypeError
NumericColumns(f) ==
    \A r \in Rows(f) :
        r.Weight.k # "str" /\ r.multiplier.k # "str" /\ r.Reps.k # "str"

\* df["Weight(kg)"].fillna(0) * df["multiplier"].fillna(1)
ActualWeight(r) == fillna(r.Weight, 0).v * fillna(r.multiplier, 1).v

\* df["Actual Weight (kg)"] * df["Reps"].fillna(0)
Volume(r) == ActualWeight(r) * fillna(r.Reps, 0).v

\* 30 times the 1RM estimate of a row: aw * (1 + Reps / 30) when aw > 0, with
\* NaN Reps giving NaN; None (NaN in the column) otherwise
OneRM(r) ==
    IF r.ActualWeight > 0
    THEN (IF r.Reps.k = "num" THEN Num(r.ActualWeight * (30 + r.Reps.v)) ELSE NaN)
    ELSE NaN

(***************************** PR detection ********************************)
Medal == "medal"

\* a float comparison of two cells: NaN equals nothing
CellEq(a, b) == a.k = "num" /\ b.k = "num" /\ a.v = b.v

\* dict.get(key, default)
Get(d, key, default) == IF key \in DOMAIN d THEN d[key] ELSE default

\* df[aw > 0].groupby("Exercise")["Actual Weight (kg)"].max().to_dict();
\* groupby drops the rows whose key is missing
PrsWeight(f) ==
    LET W == {r \in Rows(f) : r.ActualWeight > 0 /\ r.Exercise # NoText}
    IN  [e \in {r.Exercise : r \in W} |->
            MaxOf({r.ActualWeight : r \in {x \in W : x.Exercise = e}})]

\* df[aw == 0].groupby("Exercise")["Reps"].max().to_dict(); max skips NaN and
\* is NaN for a group of NaN only
PrsReps(f) ==
    LET B == {r \in Rows(f) : r.ActualWeight = 0 /\ r.Exercise # NoText}
    IN  [e \in {r.Exercise : r \in B} |->
            LET S == {r.Reps.v : r \in {x \in B : x.Exercise = e /\ x.Reps.k = "num"}}
            IN  IF S = {} THEN NaN ELSE Num(MaxOf(S))]

\* the default of dict.get a value a real set can have
assign_pr_default_zero(row, pw, pr) ==
    IF row.ActualWeight = 0
    THEN (IF CellEq(row.Reps, Get(pr, row.Exercise, Num(0))) THEN Medal ELSE "")
    ELSE (IF row.ActualWeight = Get(pw, row.Exercise, 0) THEN Medal ELSE "")

assign_pr(row, pw, pr) ==
    IF row.ActualWeight = 0
    THEN (IF CellEq(row.Reps, Get(pr, row.Exercise, Num(-1))) THEN Medal ELSE "")
    ELSE (IF row.ActualWeight = Get(pw, row.Exercise, -1) THEN Medal ELSE "")

(***************************** weekly summary ******************************)
\* the keys of groupby("Week"): <NA> is dropped
WeekKeys(f) == {r.Week : r \in Rows(f)} \ {NoWeek}

\* the sum of Volume (kg) of the rows of group w
GroupVolume(f, w) ==
    SumSeq([i \in 1..Len(f) |-> IF f[i].Week = w THEN f[i].Volume ELSE 0])

WeekSummaryRow(f, w) ==
    LET G == {r \in Rows(f) : r.Week = w}
    IN  [Week |-> w,
         TotalVolume |-> GroupVolume(f, w),
         HeaviestLift |-> MaxOf({r.ActualWeight : r \in G}),
         TotalReps |-> SumSeq([i \in 1..Len(f) |->
                          IF f[i].Week = w THEN RepsOrZero(f[i]) ELSE 0]),
         UniqueExercises |-> Cardinality({r.Exercise : r \in G} \ {NoText})]

\* groupby("Week").agg(...).sort_values("Week", ascending=False)
WeeklySummaryOf(f) ==
    LET ws == Reverse(SortedSeq(WeekKeys(f)))
    IN  [i \in 1..Len(ws) |-> WeekSummaryRow(f, ws[i])]

(***************************** sidebar and view ****************************)
\* Azim View: sets under 40 kg are hidden
LightLimit == 40

\* st.selectbox: one of the options, None when there is none
SelectBox(options) == IF options = {} THEN {None} ELSE options

all_days(f) == {r.Day : r \in Rows(f)} \ {NaT}
all_ex(f) == {r.Exercise : r \in Rows(f)} \ {NoText}

\* df[df[col] == sel], then the light sets hidden when asked
ViewOf(f, mode, sel, hide) ==
    LET v == IF sel = None THEN <<>>
             ELSE IF mode = "By Date"
                  THEN SelectSeq(f, LAMBDA r : r.Day = sel)
                  ELSE SelectSeq(f, LAMBDA r : r.Exercise = sel)
    IN  IF hide THEN SelectSeq(v, LAMBDA r : r.ActualWeight >= LightLimit) ELSE v

(***************************** advanced metrics ****************************)
\* the rolling window of ACWR, in weeks
Window == 4

\* the mean of the n positions before i, i itself left out
RollingMean_prior(vols, i, n) ==
    LET hi == i - 1
        lo == IF hi - n + 1 < 1 THEN 1 ELSE hi - n + 1
    IN  [sum |-> SumSeq([j \in 1..(hi - lo + 1) |-> vols[lo + j - 1]]),
         count |-> hi - lo + 1]

\* Series.rolling(n, min_periods=1).mean() at position i, as sum and count
RollingMean(vols, i, n) ==
    LET lo == IF i - n + 1 < 1 THEN 1 ELSE i - n + 1
    IN  [sum |-> SumSeq([j \in 1..(i - lo + 1) |-> vols[lo + j - 1]]),
         count |-> i - lo + 1]

\* a division guarded to give 0 for a zero mean
Divide_zero_guard(x, mean) ==
    IF mean.sum = 0
    THEN [k |-> "num", num |-> 0, den |-> 1]
    ELSE [k |-> "num", num |-> x * mean.count, den |-> mean.sum]

\* float division x / (sum / count): NaN for 0/0, inf for x/0, no exception
Divide(x, mean) ==
    IF mean.sum = 0
    THEN [k |-> (IF x = 0 THEN "nan" ELSE "inf"), num |-> 0, den |-> 0]
    ELSE [k |-> "num", num |-> x * mean.count, den |-> mean.sum]

\* groupby('Week').agg(sum of volume, count of medals).sort_values('Week'),
\* with ACWR = Total Volume / rolling mean of Total Volume
WeeklyOf(f) ==
    LET ws == SortedSeq(WeekKeys(f))
        vols == [i \in 1..Len(ws) |-> GroupVolume(f, ws[i])]
    IN  [i \in 1..Len(ws) |->
            [Week |-> ws[i],
             TotalVolume |-> vols[i],
             PRCount |-> Cardinality({r \in Rows(f) : r.Week = ws[i] /\ r.PR = Medal}),
             ACWR |-> Divide(vols[i], RollingMean(vols, i, Window))]]

\* the days of S, earliest first
RECURSIVE SortedDays(_)
SortedDays(S) ==
    IF S = {} THEN <<>>
    ELSE LET m == CHOOSE x \in S : \A y \in S : ~DayBefore(y, x)
         IN  <<m>> \o SortedDays(S \ {m})

\* the series of the first estimate of each day instead of the largest
IrmOf_first(f) ==
    LET E == {r \in Rows(f) : r.RM.k = "num" /\ r.Day # NaT}
        ds == SortedDays({r.Day : r \in E})
    IN  [i \in 1..Len(ds) |->
            [Day |-> ds[i],
             RM |-> f[CHOOSE j \in 1..Len(f) :
                        /\ f[j] \in E /\ f[j].Day = ds[i]
                        /\ \A h \in 1..(j - 1) : ~(f[h] \in E /\ f[h].Day = ds[i])].RM.v]]

\* df.dropna(subset=['1RM Estimate']).groupby('Day')['1RM Estimate'].max()
\*   .sort_values('Day'); groupby drops the rows whose Day is NaT
IrmOf(f) ==
    LET E == {r \in Rows(f) : r.RM.k = "num" /\ r.Day # NaT}
        ds == SortedDays({r.Day : r \in E})
    IN  [i \in 1..Len(ds) |->
            [Day |-> ds[i],
             RM |-> MaxOf({r.RM.v : r \in {x \in E : x.Day = ds[i]}})]]

(***************************** display and download ************************)
\* df_export[export_cols] without the set number
ExportRow(r) ==
    [Day |-> r.Day, Exercise |-> r.Exercise, Reps |-> r.Reps,
     Weight |-> r.Weight, multiplier |-> r.multiplier,
     ActualWeight |-> r.ActualWeight, Volume |-> r.Volume, PR |-> r.PR]

ExportOf(v) == [i \in 1..Len(v) |-> ExportRow(v[i])]

(***************************** actions *************************************)
Init ==
    /\ pc = "load"
    /\ raw = <<>>
    /\ df = <<>>
    /\ prs_weight = <<>>
    /\ prs_reps = <<>>
    /\ weekly_summary = <<>>
    /\ view_mode = "By Date"
    /\ hide_light = FALSE
    /\ selected = None
    /\ df_view = <<>>
    /\ weekly = <<>>
    /\ irm = <<>>
    /\ df_export = <<>>

\* lines 24-26
LoadData ==
    /\ pc = "load"
    /\ \E csv \in Corpora :
          /\ raw' = csv
          /\ df' = LoadFrame(csv)
    /\ pc' = "exclude"
    /\ UNCHANGED <<prs_weight, prs_reps, weekly_summary, view_mode, hide_light,
                   selected, df_view, weekly, irm, df_export>>

\* line 29
ExcludeCardio ==
    /\ pc = "exclude"
    /\ df' = ExcludeCardioRows(df)
    /\ pc' = "derive"
    /\ UNCHANGED <<raw, prs_weight, prs_reps, weekly_summary, view_mode,
                   hide_light, selected, df_view, weekly, irm, df_export>>

\* lines 32-40: actual weight, volume and the 1RM estimate, or TypeError
DerivedMetrics ==
    /\ pc = "derive"
    /\ IF NumericColumns(df)
       THEN /\ df' = [i \in 1..Len(df) |->
                        LET r == df[i] @@ [ActualWeight |-> ActualWeight(df[i]),
                                           Volume |-> Volume(df[i])]
                        IN  r @@ [RM |-> OneRM(r)]]
            /\ pc' = "pr"
       ELSE /\ df' = df
            /\ pc' = "raised"
    /\ UNCHANGED <<raw, prs_weight, prs_reps, weekly_summary, view_mode,
                   hide_light, selected, df_view, weekly, irm, df_export>>

\* lines 43-62
PRDetection ==
    /\ pc = "pr"
    /\ prs_weight' = PrsWeight(df)
    /\ prs_reps' = PrsReps(df)
    /\ df' = [i \in 1..Len(df) |->
                df[i] @@ [PR |-> assign_pr(df[i], PrsWeight(df), PrsReps(df))]]
    /\ pc' = "classify"
    /\ UNCHANGED <<raw, weekly_summary, view_mode, hide_light, selected,
                   df_view, weekly, irm, df_export>>

\* lines 65-77
Classify ==
    /\ pc = "classify"
    /\ df' = [i \in 1..Len(df) |->
                df[i] @@ [WorkoutType |-> classify_exercise(df[i].Exercise)]]
    /\ pc' = "weekly"
    /\ UNCHANGED <<raw, prs_weight, prs_reps, weekly_summary, view_mode,
                   hide_light, selected, df_view, weekly, irm, df_export>>

\* lines 80-96
WeeklySummary ==
    /\ pc = "weekly"
    /\ LET f == [i \in 1..Len(df) |-> df[i] @@ [Week |-> IsoWeek(df[i].Date)]]
       IN  /\ df' = f
           /\ weekly_summary' = WeeklySummaryOf(f)
    /\ pc' = "sidebar"
    /\ UNCHANGED <<raw, prs_weight, prs_reps, view_mode, hide_light, selected,
                   df_view, weekly, irm, df_export>>

\* lines 99-117
Sidebar ==
    /\ pc = "sidebar"
    /\ \E mode \in {"By Date", "By Exercise"}, hide \in BOOLEAN :
          \E sel \in SelectBox(IF mode = "By Date" THEN all_days(df) ELSE all_ex(df)) :
              /\ view_mode' = mode
              /\ hide_light' = hide
              /\ selected' = sel
              /\ df_view' = ViewOf(df, mode, sel, hide)
    /\ pc' = "advanced"
    /\ UNCHANGED <<raw, df, prs_weight, prs_reps, weekly_summary, weekly, irm,
                   df_export>>

\* lines 142-169
AdvancedMetrics ==
    /\ pc = "advanced"
    /\ weekly' = WeeklyOf(df)
    /\ irm' = IrmOf(df)
    /\ pc' = "display"
    /\ UNCHANGED <<raw, df, prs_weight, prs_reps, weekly_summary, view_mode,
                   hide_light, selected, df_view, df_export>>

\* lines 191-266
Display ==
    /\ pc = "display"
    /\ df_export' = ExportOf(df_view)
    /\ pc' = "done"
    /\ UNCHANGED <<raw, df, prs_weight, prs_reps, weekly_summary, view_mode,
                   hide_light, selected, df_view, weekly, irm>>

\* Streamlit runs the script again from the top
Rerun ==
    /\ pc \in {"done", "raised"}
    /\ pc' = "load"
    /\ raw' = <<>>
    /\ df' = <<>>
    /\ prs_weight' = <<>>
    /\ prs_reps' = <<>>
    /\ weekly_summary' = <<>>
    /\ view_mode' = "By Date"
    /\ hide_light' = FALSE
    /\ selected' = None
    /\ df_view' = <<>>
    /\ weekly' = <<>>
    /\ irm' = <<>>
    /\ df_export' = <<>>

Next ==
    \/ LoadData
    \/ ExcludeCardio
    \/ DerivedMetrics
    \/ PRDetection
    \/ Classify
    \/ WeeklySummary
    \/ Sidebar
    \/ AdvancedMetrics
    \/ Display
    \/ Rerun

Spec == Init /\ [][Next]_vars

(***************************** script positions ****************************)
AfterExclude == {"derive", "raised", "pr", "classify", "weekly", "sidebar",
                 "advanced", "display", "done"}
AfterDerive == {"pr", "classify", "weekly", "sidebar", "advanced", "display", "done"}
AfterPR == {"classify", "weekly", "sidebar", "advanced", "display", "done"}
AfterWeekly == {"sidebar", "advanced", "display", "done"}
AfterSidebar == {"advanced", "display", "done"}
AfterAdvanced == {"display", "done"}

\* a numeric cell read as the spec reads it: its number, else the default
Coerce(c, d) == IF c.k = "num" THEN c.v ELSE d

(***************************** C1 ******************************************)
\* the sets of the exercise of r that are weighted, and those that are not
WeightedPeers(r) ==
    {x \in Rows(df) : x.Exercise = r.Exercise /\ x.ActualWeight > 0}
BodyweightPeers(r) ==
    {x \in Rows(df) : x.Exercise = r.Exercise /\ x.ActualWeight = 0
                      /\ x.Reps.k = "num"}

\* r ties the best of its exercise: the heaviest weighted set, or, without
\* weight, the set of most reps; a set without exercise name is in no map
TiesBest(r) ==
    /\ r.Exercise # NoText
    /\ \/ /\ r.ActualWeight > 0
          /\ \A x \in WeightedPeers(r) : x.ActualWeight <= r.ActualWeight
       \/ /\ r.ActualWeight = 0
          /\ r.Reps.k = "num"
          /\ \A x \in BodyweightPeers(r) : x.Reps.v <= r.Reps.v

Dated(f) == SelectSeq(f, LAMBDA r : r.Date # NaT)

\* C2: a raw record whose date cannot be parsed is absent from every output:
\* it sets no best value of the PR maps, it is in no view and in no CSV
\* export of a view, in no weekly row and no trend point, and raises nothing.
C2_UnparsableDateAbsent ==
    /\ pc \in AfterPR =>
          /\ prs_weight = PrsWeight(Dated(df))
          /\ prs_reps = PrsReps(Dated(df))
    /\ pc \in AfterWeekly => weekly_summary = WeeklySummaryOf(Dated(df))
    /\ pc \in AfterSidebar => \A i \in 1..Len(df_view) : df_view[i].Date # NaT
    /\ pc \in AfterAdvanced => irm = IrmOf(Dated(df))
    /\ pc = "done" => \A i \in 1..Len(df_export) : df_export[i].Day # NaT

(***************************** C3 ******************************************)
\* the sum of Total Volume of the rows lo..hi of weekly
RECURSIVE VolumeSum(_, _)
VolumeSum(lo, hi) ==
    IF lo > hi THEN 0 ELSE weekly[lo].TotalVolume + VolumeSum(lo + 1, hi)

Min(a, b) == IF a <= b THEN a ELSE b

\* the ratio q equals x / (sum / count)
IsRatio(q, x, sum, count) ==
    q.k = "num" /\ q.num * sum = q.den * x * count

\* C3 as stated: the ACWR of the most recent week is its volume over the mean
\* volume of the up-to-four weeks before it, the week itself not included.
C3_ChronicExcludesCurrent ==
    pc \in AfterAdvanced =>
        LET n == Len(weekly)
            prior == Min(n - 1, 4)
        IN  (n >= 2 /\ VolumeSum(n - prior, n - 1) > 0) =>
                IsRatio(weekly[n].ACWR, weekly[n].TotalVolume,
                        VolumeSum(n - prior, n - 1), prior)

\* the volumes 1000, 800, 900, 1000, 1100 (most recent first) of the example
\* give acute 1000 over chronic 925 = (1000 + 800 + 900 + 1000) / 4, not 950
ExampleRatio ==
    raw = ExampleLog =>
        /\ IsRatio(weekly[5].ACWR, 1000, 3700, 4)
        /\ ~IsRatio(weekly[5].ACWR, 1000, 950, 1)

\* C3 amended: the ACWR of a week (the most recent one included) is its
\* volume over the mean volume of the up-to-four most recent weeks ending with
\* that week itself: the week and the up-to-three weeks before it, in the
\* order of the week numbers.
C3_ChronicIncludesCurrent ==
    pc \in AfterAdvanced =>
        /\ \A i \in 1..Len(weekly) :
              LET w == Min(i, 4)
              IN  VolumeSum(i - w + 1, i) > 0 =>
                      IsRatio(weekly[i].ACWR, weekly[i].TotalVolume,
                              VolumeSum(i - w + 1, i), w)
        /\ ExampleRatio

\* five weeks with volume in the oldest one, which the window has left
C3_Witness ==
    /\ pc \in AfterAdvanced
    /\ Len(weekly) = 5
    /\ weekly[1].TotalVolume > 0
    /\ weekly[5].TotalVolume > 0
    /\ weekly[5].TotalVolume # weekly[4].TotalVolume
    /\ weekly[5].ACWR.k = "num"

CalendarWeeks == {IsoYearWeek(r.Date) : r \in {x \in Rows(df) : x.Date # NaT}}

\* the volume of the records of the ISO calendar week yw
CalendarWeekVolume(yw) ==
    SumSeq([i \in 1..Len(df) |->
               IF df[i].Date # NaT /\ IsoYearWeek(df[i].Date) = yw
               THEN df[i].Volume ELSE 0])

\* C5: every ISO calendar week with a record has a row of the weekly summary,
\* whose total volume is the sum of the volume of the records of exactly that
\* calendar week; the same week number of another year adds nothing to it.
C5_WeekTotals ==
    pc \in AfterWeekly =>
        /\ Len(weekly_summary) = Cardinality(CalendarWeeks)
        /\ \A yw \in CalendarWeeks :
              \E i \in 1..Len(weekly_summary) :
                  /\ weekly_summary[i].Week = yw[2]
                  /\ weekly_summary[i].TotalVolume = CalendarWeekVolume(yw)

(***************************** C6 ******************************************)
\* C6: the derivation fails on no bad field, and every enriched record has
\* actual_weight = weight x multiplier and volume = actual_weight x reps, a
\* missing or non-numeric reps or weight read as 0 and multiplier as 1.
C6_Derivation ==
    /\ pc # "raised"
    /\ pc \in AfterDerive =>
          \A i \in 1..Len(df) :
              /\ df[i].ActualWeight =
                    Coerce(df[i].Weight, 0) * Coerce(df[i].multiplier, 1)
              /\ df[i].Volume = df[i].ActualWeight * Coerce(df[i].Reps, 0)

(***************************** C7 ******************************************)
\* C7: a weighted record's estimate is actual_weight x (1 + reps/30) when
\* reps > 1 and actual_weight when reps <= 1 (missing reps read as 0); an
\* unweighted record has no estimate.  Estimates are kept 30-fold.
C7_Epley ==
    pc \in AfterDerive =>
        \A i \in 1..Len(df) :
            LET aw == df[i].ActualWeight
                reps == Coerce(df[i].Reps, 0)
            IN  IF aw > 0
                THEN df[i].RM = Num(IF reps > 1 THEN aw * (30 + reps) ELSE aw * 30)
                ELSE df[i].RM.k = "nan"

(***************************** C8 ******************************************)
\* the names of the input whose text holds "stair stepper" or "cycling" in
\* some casing
CardioNames == {StairStepperLevel5, StairStepperLower, IndoorCyclingCaps}

\* the volume the rows of the file outside the exclusion list put in weeks
KeptVolume ==
    SumSeq([i \in 1..Len(raw) |->
               IF raw[i].Exercise \notin CardioNames /\ to_datetime(raw[i].Date) # NaT
               THEN Coerce(raw[i].Weight, 0) * Coerce(raw[i].multiplier, 1)
                    * Coerce(raw[i].Reps, 0)
               ELSE 0])

C9_Precedence ==
    pc = "weekly" =>
        /\ \A i \in 1..Len(df) :
              LET n == ToLower(Str(df[i].Exercise))
                  t == df[i].WorkoutType
              IN  /\ AnyIn(n, lower_kw) => t = "Lower"
                  /\ (~AnyIn(n, lower_kw) /\ AnyIn(n, push_kw)) => t = "Push"
                  /\ (~AnyIn(n, lower_kw) /\ ~AnyIn(n, push_kw) /\ AnyIn(n, pull_kw))
                        => t = "Pull"
                  /\ (~AnyIn(n, lower_kw) /\ ~AnyIn(n, push_kw) /\ ~AnyIn(n, pull_kw))
                        => t = "Other"
                  /\ df[i].Exercise \in {LegCurl, InclineLegPress, SquatPushRow}
                        => t = "Lower"
                  /\ df[i].Exercise = InclineRow => t = "Push"
                  /\ df[i].Exercise = BarbellRowCaps => t = "Pull"
        /\ \A i, j \in 1..Len(df) :
              df[i].Exercise = df[j].Exercise => df[i].WorkoutType = df[j].WorkoutType

\* a name with a lower-body and a push keyword, classified
C9_Witness ==
    /\ pc = "weekly"
    /\ \E i \in 1..Len(df) :
          /\ df[i].Exercise = InclineLegPress
          /\ df[i].WorkoutType = "Lower"

(***************************** C10 *****************************************)
\* the estimates of the records of day d, of exercise e when e is given
DayEstimates(d) ==
    {r.RM.v : r \in {x \in Rows(df) : x.Day = d /\ x.RM.k = "num"}}
DayEstimatesOf(d, e) ==
    {r.RM.v : r \in {x \in Rows(df) : x.Day = d /\ x.RM.k = "num" /\ x.Exercise = e}}

=============================================================================
